---- MODULE Spec2Model ----
(***************************************************************************)
(* Model of the tag-and-release reconciliation script                      *)
(* (src/unnamed/part_000): argument parsing and classification, the create *)
(* run (wipe releases, wipe tags, resolve the branch tip, apply the        *)
(* batch) and the check run (list tags, list releases, report).            *)
(*                                                                         *)
(* A string is a sequence of tokens; the separators "," and ":" are tokens *)
(* of their own, so that String.split is modelled by what it does.         *)
(***************************************************************************)
EXTENDS Naturals, Sequences, FiniteSets

VARIABLES
    argv,              \* [command, rawOptions]: process.argv[2] and process.argv.slice(3)
    pc,                \* position of the script
    after,             \* where the script continues once the pending delay has elapsed
    options,           \* the batch built by processArguments
    releases,          \* remote: the repository's releases, in listing order
    tags,              \* remote: the repository's tags, in listing order
    branchTip,         \* remote: commit at the tip of branch "main"
    nextId,            \* remote: id the platform gives to the next release
    initial,           \* history: the remote releases and tags before the run
    existingReleases,  \* local: the listing held by deleteExistingReleases
    existingTags,      \* local: the listing held by deleteExistingTags
    idx,               \* local: position of the running for-of loop (1 between loops)
    tagCommitSha,      \* local: runCreate's tagCommitSha
    hasError,          \* local: runChecks' hasError
    reported,          \* console: the not-found lists printed by runChecks
    exitCode,          \* process exit status
    inflight,          \* number of remote calls issued and not yet returned
    awaiting,          \* the script is suspended on the call it has issued
    foreign,           \* history: what another writer added to the repository
    trace              \* every remote call issued and every delay elapsed, in order

vars == <<argv, pc, after, options, releases, tags, branchTip, nextId, initial,
          existingReleases, existingTags, idx, tagCommitSha, hasError,
          reported, exitCode, inflight, awaiting, foreign, trace>>

-----------------------------------------------------------------------------
(* Bounds of the explored inputs *)

MaxOptions == 2

MaxParts == 3

MaxReleases == 2

MaxTags == 2

-----------------------------------------------------------------------------
(* Program constants *)

API_DELAY_MS == 2500

SUPPORTED_COMMANDS == {"create", "check"}

\* JavaScript's undefined, as a value no string of tokens equals.
undefined == <<"undefined">>

\* !!s for a string or undefined: defined and not empty.
Truthy(s) == s # undefined /\ s # <<>>

-----------------------------------------------------------------------------
(* Strings *)

HasSep(s, sep) == \E i \in 1..Len(s) : s[i] = sep

FirstSep(s, sep) == CHOOSE i \in 1..Len(s) : s[i] = sep /\ \A j \in 1..(i-1) : s[j] # sep

RECURSIVE Split(_, _)
\* String.prototype.split(sep): n separators give n+1 segments.
Split(s, sep) ==
    IF ~HasSep(s, sep) THEN <<s>>
    ELSE LET i == FirstSep(s, sep)
         IN  <<SubSeq(s, 1, i-1)>> \o Split(SubSeq(s, i+1, Len(s)), sep)

RECURSIVE Join(_, _)
\* Array.prototype.join(sep); builds the raw strings handed to the script.
Join(segs, sep) ==
    IF Len(segs) = 0 THEN <<>>
    ELSE IF Len(segs) = 1 THEN segs[1]
    ELSE segs[1] \o <<sep>> \o Join(Tail(segs), sep)

-----------------------------------------------------------------------------
(* Option Model *)

Quit == [field |-> "quit", str |-> undefined, bool |-> FALSE]

processOptionPart(option) ==
    LET parts == Split(option, ":")
        name  == parts[1]
        value == IF Len(parts) >= 2 THEN parts[2] ELSE undefined
    IN  IF name = <<"tag">> THEN [field |-> "tag", str |-> value, bool |-> FALSE]
        ELSE IF name = <<"rel">> THEN [field |-> "name", str |-> value, bool |-> FALSE]
        ELSE IF name = <<"dft">>
             THEN [field |-> "draft", str |-> undefined, bool |-> (value = <<"true">>)]
        ELSE Quit

\* isTagOption with the draft flag not looked at.
isTagOptionIgnoringDraft(option) == Truthy(option.tag) /\ ~Truthy(option.name)

isTagOption(option) == Truthy(option.tag) /\ ~Truthy(option.name) /\ ~option.draft

isReleaseOption(option) == Truthy(option.name)

\* FindPart looking at the first processed part only.
FindPartFirstOnly(processedOptions, f) ==
    IF /\ Len(processedOptions) >= 1
       /\ processedOptions[1].field = f
       /\ (f = "draft" \/ processedOptions[1].str # undefined)
    THEN 1 ELSE 0

\* Array.prototype.find over the processed parts: index of the first part
\* that defines the field, 0 when there is none.
FindPart(processedOptions, f) ==
    LET hits == { i \in 1..Len(processedOptions) :
                    /\ processedOptions[i].field = f
                    /\ (f = "draft" \/ processedOptions[i].str # undefined) }
    IN  IF hits = {} THEN 0 ELSE CHOOSE i \in hits : \A j \in hits : i <= j

\* The body of the loop over rawOptions: one raw string to one option.
AssembleOption(rawOption) ==
    LET raws == Split(rawOption, ",")
        processedOptions == [i \in 1..Len(raws) |-> processOptionPart(raws[i])]
        t == FindPart(processedOptions, "tag")
        n == FindPart(processedOptions, "name")
        d == FindPart(processedOptions, "draft")
    IN  [name  |-> IF n = 0 THEN undefined ELSE processedOptions[n].str,
         tag   |-> IF t = 0 THEN undefined ELSE processedOptions[t].str,
         draft |-> IF d = 0 THEN FALSE ELSE processedOptions[d].bool]

\* processOptionPart calls logAndQuit for some part of the raw string.
QuitsOnPart(rawOption) ==
    LET raws == Split(rawOption, ",")
    IN  \E i \in 1..Len(raws) : processOptionPart(raws[i]) = Quit

-----------------------------------------------------------------------------
(* Inputs: command lines and remote repositories *)

V1 == <<"v1">>

V2 == <<"v2">>

V3 == <<"v3">>

R1 == <<"R1">>

R2 == <<"R2">>

\* The parts a raw option is built from: well-formed key:value parts, an
\* unrecognized key, an empty value ("rel:") and a key without a colon ("tag").
Parts ==
    { <<"tag", ":", "v1">>, <<"tag", ":", "v2">>, <<"rel", ":", "R1">>,
      <<"dft", ":", "true">>, <<"dft", ":", "false">>, <<"foo", ":", "bar">>,
      <<"rel", ":">>, <<"tag">> }

PartLists(n) == UNION { [1..k -> Parts] : k \in 0..n }

\* Every raw option of at most MaxParts parts (the empty string included).
RawOptions == { Join(ps, ",") : ps \in PartLists(MaxParts) }

\* Raw options the multi-option batches are drawn from: two tags, a
\* release, a draft release and an option that is neither.
BatchOptions ==
    { <<"tag", ":", "v1">>, <<"tag", ":", "v2">>,
      <<"rel", ":", "R1", ",", "tag", ":", "v1">>,
      <<"dft", ":", "true", ",", "rel", ":", "R1", ",", "tag", ":", "v1">>,
      <<"dft", ":", "true", ",", "tag", ":", "v2">> }

Batches == UNION { [1..k -> BatchOptions] : k \in 0..MaxOptions }

Commands == SUPPORTED_COMMANDS \cup {"delete"}

\* Releases a repository may hold before the run, in the platform's order.
ReleaseShapes ==
    << [name |-> R1, tag_name |-> V1, draft |-> FALSE],
       [name |-> R1, tag_name |-> V1, draft |-> TRUE],
       [name |-> R1, tag_name |-> V2, draft |-> FALSE],
       [name |-> R2, tag_name |-> V1, draft |-> FALSE] >>

TagNames == <<V1, V2, V3>>

RECURSIVE Ascending(_)
\* The members of a finite set of numbers, smallest first.
Ascending(S) ==
    IF S = {} THEN <<>>
    ELSE LET m == CHOOSE x \in S : \A y \in S : x <= y
         IN  <<m>> \o Ascending(S \ {m})

Picks(n, max) == { Ascending(S) : S \in { T \in SUBSET (1..n) : Cardinality(T) <= max } }

InitialReleases ==
    { [i \in 1..Len(p) |-> [id       |-> i,
                            name     |-> ReleaseShapes[p[i]].name,
                            tag_name |-> ReleaseShapes[p[i]].tag_name,
                            draft    |-> ReleaseShapes[p[i]].draft]] :
        p \in Picks(Len(ReleaseShapes), MaxReleases) }

InitialTags ==
    { [i \in 1..Len(p) |-> [name |-> TagNames[p[i]], sha |-> "c0"]] :
        p \in Picks(Len(TagNames), MaxTags) }

FixedReleases == <<[id |-> 1, name |-> R1, tag_name |-> V1, draft |-> FALSE]>>

FixedTags == <<[name |-> V1, sha |-> "c0"]>>

Init ==
    /\ \E c \in Commands :
         \/ \E b \in Batches :
              /\ argv = [command |-> c, rawOptions |-> b]
              /\ releases \in InitialReleases
              /\ tags \in InitialTags
         \/ \E r \in RawOptions :
              /\ argv = [command |-> c, rawOptions |-> <<r>>]
              /\ releases = FixedReleases
              /\ tags = FixedTags
    /\ nextId = Len(releases) + 1
    /\ initial = [releases |-> releases, tags |-> tags]
    /\ branchTip = "c1"
    /\ pc = "start"
    /\ after = "none"
    /\ options = <<>>
    /\ existingReleases = <<>>
    /\ existingTags = <<>>
    /\ idx = 0
    /\ tagCommitSha = "null"
    /\ hasError = FALSE
    /\ reported = <<>>
    /\ exitCode = 0
    /\ inflight = 0
    /\ awaiting = FALSE
    /\ foreign = <<>>
    /\ trace = <<>>

-----------------------------------------------------------------------------
(* processArguments and run *)

remoteVars == <<releases, tags, branchTip, nextId, initial>>

createVars == <<existingReleases, existingTags, idx, tagCommitSha>>

checkVars == <<hasError, reported>>

\* logAndQuit: process.exit(1).
LogAndQuit ==
    /\ pc' = "exited"
    /\ exitCode' = 1

\* The options processArguments has pushed when it returns or quits: the
\* loop over rawOptions stops at the first raw option with a bad part.
ParsedOptions(rawOptions) ==
    LET bad == { i \in 1..Len(rawOptions) : QuitsOnPart(rawOptions[i]) }
        n   == IF bad = {} THEN Len(rawOptions)
               ELSE (CHOOSE i \in bad : \A j \in bad : i <= j) - 1
    IN  [i \in 1..n |-> AssembleOption(rawOptions[i])]

\* ArgumentsRejected with the classification pass over the batch left out.
ArgumentsRejectedNoClassify(a) ==
    \/ a.command \notin SUPPORTED_COMMANDS
    \/ \E i \in 1..Len(a.rawOptions) : QuitsOnPart(a.rawOptions[i])

\* processArguments quits: bad command, bad part, or unclassifiable option.
ArgumentsRejected(a) ==
    \/ a.command \notin SUPPORTED_COMMANDS
    \/ \E i \in 1..Len(a.rawOptions) : QuitsOnPart(a.rawOptions[i])
    \/ \E i \in 1..Len(a.rawOptions) :
         LET option == AssembleOption(a.rawOptions[i])
         IN  ~isTagOption(option) /\ ~isReleaseOption(option)

ProcessArguments ==
    /\ pc = "start"
    /\ UNCHANGED <<inflight, awaiting>>
    /\ IF ArgumentsRejected(argv)
       THEN /\ LogAndQuit
            /\ options' = IF argv.command \in SUPPORTED_COMMANDS
                          THEN ParsedOptions(argv.rawOptions) ELSE <<>>
       ELSE /\ options' = ParsedOptions(argv.rawOptions)
            /\ pc' = "run"
            /\ UNCHANGED exitCode
    /\ UNCHANGED <<argv, foreign, after, remoteVars, createVars, checkVars, trace>>

\* Dispatch with runCreate starting at the tags, the releases left in place.
DispatchSkipReleaseWipe(command) ==
    IF command = "create" THEN "deleteExistingTags"
    ELSE IF command = "check" THEN "checkTags"
    ELSE "done"

\* Dispatch with every command taken for "create".
DispatchAlwaysCreate(command) == "deleteExistingReleases"

\* run's dispatch on the command: where the script goes next.
Dispatch(command) ==
    IF command = "create" THEN "deleteExistingReleases"
    ELSE IF command = "check" THEN "checkTags"
    ELSE "done"

Run ==
    /\ pc = "run"
    /\ UNCHANGED <<inflight, awaiting>>
    /\ IF Len(options) = 0
       THEN LogAndQuit
       ELSE /\ pc' = Dispatch(argv.command)
            /\ UNCHANGED exitCode
    /\ UNCHANGED <<argv, foreign, after, options, remoteVars, createVars, checkVars, trace>>

-----------------------------------------------------------------------------
(* Pacing and the remote calls *)

Delay(timeoutMs) == [op |-> "delay", ms |-> timeoutMs]

IsCall(e) == e.op # "delay"

\* Abort with the error caught and the call tried again.
AbortRetried(call) ==
    /\ trace' = Append(trace, call)
    /\ pc' = pc

\* Abort with the delay in a finally block: it runs after the failed call.
AbortThenDelay(call) ==
    /\ trace' = Append(trace, call)
    /\ pc' = "delay"

\* An awaited remote call throws: nothing catches it and the script stops.
Abort(call) ==
    /\ trace' = Append(trace, call)
    /\ pc' = "aborted"

\* ThenDelay with the await of the delay forgotten.
ThenNoDelay(to) ==
    /\ pc' = to
    /\ after' = "none"

\* await delay(API_DELAY_MS) has been reached: the script continues at `to`
\* once the timer fires.
ThenDelay(to) ==
    /\ pc' = "delay"
    /\ after' = to

\* Awaited with the promise dropped instead of awaited: the script goes on
\* while the call is still in flight.
NotAwaited(n) == n

\* `await` on a remote call: the script resumes when the call has returned,
\* so the call is no longer in flight.
Awaited(n) == n - 1

\* The points of the script at which a remote call is made.
CallSites ==
    {"deleteExistingReleases", "deleteRelease", "deleteExistingTags", "deleteRef",
     "getBranch", "apply", "checkTags", "checkReleases"}

\* The script reaches a remote call and sends the request.
IssueCall ==
    /\ pc \in CallSites
    /\ pc = "apply" => (isReleaseOption(options[idx]) \/ isTagOption(options[idx]))
    /\ ~awaiting
    /\ inflight' = inflight + 1
    /\ awaiting' = TRUE
    /\ UNCHANGED <<argv, foreign, pc, after, options, remoteVars, createVars, checkVars,
                   exitCode, trace>>

\* The call the script is suspended on returns (or throws) and the script resumes.
Returned ==
    /\ awaiting
    /\ inflight' = Awaited(inflight)
    /\ awaiting' = FALSE

AwaitDelay ==
    /\ pc = "delay"
    /\ UNCHANGED <<inflight, awaiting>>
    /\ trace' = Append(trace, Delay(API_DELAY_MS))
    /\ pc' = after
    /\ after' = "none"
    /\ UNCHANGED <<argv, foreign, options, remoteVars, createVars, checkVars, exitCode>>

-----------------------------------------------------------------------------
(* Create Reconciler *)

hasTagOptions == \E i \in 1..Len(options) : isTagOption(options[i])

\* AfterWipe with the branch tip resolved whatever the batch holds.
AfterWipeAlwaysResolve == "getBranch"

\* AfterWipe with the branch tip never resolved.
AfterWipeNoResolve == "apply"

\* Where runCreate continues after deleteExistingTags.
AfterWipe == IF hasTagOptions THEN "getBranch" ELSE "apply"

\* deleteExistingReleases up to its first delay: loadExistingReleases.
DeleteExistingReleases ==
    /\ pc = "deleteExistingReleases"
    /\ Returned
    /\ \E ok \in BOOLEAN :
         LET call == [op |-> "listReleases", ok |-> ok]
         IN  IF ok
             THEN /\ trace' = Append(trace, call)
                  /\ existingReleases' = releases
                  /\ idx' = 1
                  /\ ThenDelay(IF Len(releases) = 0 THEN "deleteExistingTags"
                               ELSE "deleteRelease")
             ELSE /\ Abort(call)
                  /\ UNCHANGED <<after, existingReleases, idx>>
    /\ UNCHANGED <<argv, foreign, options, remoteVars, existingTags, tagCommitSha,
                   checkVars, exitCode>>

\* DeleteRelease working on the repository as it is now rather than on the
\* listing: each turn deletes the first release the repository holds, until
\* none is left.
DeleteReleaseRelisting ==
    /\ pc = "deleteRelease"
    /\ Returned
    /\ \E ok \in BOOLEAN :
         LET release == releases[1]
             call == [op |-> "deleteRelease", release_id |-> release.id, ok |-> ok]
             Kept(r) == r.id # release.id
         IN  IF ok
             THEN /\ trace' = Append(trace, call)
                  /\ releases' = SelectSeq(releases, Kept)
                  /\ idx' = 1
                  /\ ThenDelay(IF Len(releases) = 1 THEN "deleteExistingTags"
                               ELSE "deleteRelease")
             ELSE /\ Abort(call)
                  /\ UNCHANGED <<after, releases, idx>>
    /\ UNCHANGED <<argv, foreign, options, tags, branchTip, nextId, initial, existingReleases,
                   existingTags, tagCommitSha, checkVars, exitCode>>

\* One turn of the loop over existingReleases.
DeleteRelease ==
    /\ pc = "deleteRelease"
    /\ Returned
    /\ \E ok \in BOOLEAN :
         LET release == existingReleases[idx]
             call == [op |-> "deleteRelease", release_id |-> release.id, ok |-> ok]
             Kept(r) == r.id # release.id
         IN  IF ok
             THEN /\ trace' = Append(trace, call)
                  /\ releases' = SelectSeq(releases, Kept)
                  /\ idx' = IF idx = Len(existingReleases) THEN 1 ELSE idx + 1
                  /\ ThenDelay(IF idx = Len(existingReleases) THEN "deleteExistingTags"
                               ELSE "deleteRelease")
             ELSE /\ Abort(call)
                  /\ UNCHANGED <<after, releases, idx>>
    /\ UNCHANGED <<argv, foreign, options, tags, branchTip, nextId, initial, existingReleases,
                   existingTags, tagCommitSha, checkVars, exitCode>>

\* deleteExistingTags up to its first delay: loadExistingTags.
DeleteExistingTags ==
    /\ pc = "deleteExistingTags"
    /\ Returned
    /\ \E ok \in BOOLEAN :
         LET call == [op |-> "listTags", ok |-> ok]
         IN  IF ok
             THEN /\ trace' = Append(trace, call)
                  /\ existingTags' = tags
                  /\ idx' = 1
                  /\ ThenDelay(IF Len(tags) = 0 THEN AfterWipe ELSE "deleteRef")
             ELSE /\ Abort(call)
                  /\ UNCHANGED <<after, existingTags, idx>>
    /\ UNCHANGED <<argv, foreign, options, remoteVars, existingReleases, tagCommitSha,
                   checkVars, exitCode>>

\* DeleteRef leaving the loop after its first turn.
DeleteRefStopsEarly ==
    /\ pc = "deleteRef"
    /\ Returned
    /\ \E ok \in BOOLEAN :
         LET tag == existingTags[idx]
             call == [op |-> "deleteRef", ref |-> <<"tags/">> \o tag.name, ok |-> ok]
             Kept(t) == t.name # tag.name
         IN  IF ok
             THEN /\ trace' = Append(trace, call)
                  /\ tags' = SelectSeq(tags, Kept)
                  /\ idx' = 1
                  /\ ThenDelay(AfterWipe)
             ELSE /\ Abort(call)
                  /\ UNCHANGED <<after, tags, idx>>
    /\ UNCHANGED <<argv, foreign, options, releases, branchTip, nextId, initial, existingReleases,
                   existingTags, tagCommitSha, checkVars, exitCode>>

\* One turn of the loop over existingTags.
DeleteRef ==
    /\ pc = "deleteRef"
    /\ Returned
    /\ \E ok \in BOOLEAN :
         LET tag == existingTags[idx]
             call == [op |-> "deleteRef", ref |-> <<"tags/">> \o tag.name, ok |-> ok]
             Kept(t) == t.name # tag.name
         IN  IF ok
             THEN /\ trace' = Append(trace, call)
                  /\ tags' = SelectSeq(tags, Kept)
                  /\ idx' = IF idx = Len(existingTags) THEN 1 ELSE idx + 1
                  /\ ThenDelay(IF idx = Len(existingTags) THEN AfterWipe ELSE "deleteRef")
             ELSE /\ Abort(call)
                  /\ UNCHANGED <<after, tags, idx>>
    /\ UNCHANGED <<argv, foreign, options, releases, branchTip, nextId, initial, existingReleases,
                   existingTags, tagCommitSha, checkVars, exitCode>>

\* runCreate resolves the tip of "main" and goes straight on to the batch.
GetBranch ==
    /\ pc = "getBranch"
    /\ Returned
    /\ \E ok \in BOOLEAN :
         LET call == [op |-> "getBranch", branch |-> "main", ok |-> ok,
                      sha |-> IF ok THEN branchTip ELSE "null"]
         IN  IF ok
             THEN /\ trace' = Append(trace, call)
                  /\ tagCommitSha' = branchTip
                  /\ pc' = "apply"
             ELSE /\ Abort(call)
                  /\ UNCHANGED tagCommitSha
    /\ UNCHANGED <<argv, foreign, after, options, remoteVars, existingReleases,
                   existingTags, idx, checkVars, exitCode>>

createRelease(option, ok) ==
    [op |-> "createRelease", tag_name |-> option.tag, name |-> option.name,
     draft |-> option.draft, ok |-> ok]

\* createTag with the ref written as deleteExistingTags writes it.
createTagShortRef(option, commitSha, ok) ==
    [op |-> "createRef", ref |-> <<"tags/">> \o option.tag, sha |-> commitSha,
     ok |-> ok]

createTag(option, commitSha, ok) ==
    [op |-> "createRef", ref |-> <<"refs/tags/">> \o option.tag, sha |-> commitSha,
     ok |-> ok]

\* WithRelease with the draft flag not passed on: the release is published.
WithReleaseNeverDraft(option) ==
    Append(releases, [id |-> nextId, name |-> option.name,
                      tag_name |-> option.tag, draft |-> FALSE])

\* The remote repository once createRelease(option) has succeeded.
WithRelease(option) ==
    Append(releases, [id |-> nextId, name |-> option.name,
                      tag_name |-> option.tag, draft |-> option.draft])

\* The remote repository once createTag(option, commitSha) has succeeded.
WithTag(option, commitSha) ==
    Append(tags, [name |-> option.tag, sha |-> commitSha])

\* One turn of the loop over options.
Apply ==
    /\ pc = "apply"
    /\ LET option == options[idx]
           to == IF idx = Len(options) THEN "done" ELSE "apply"
       IN  IF isReleaseOption(option)
           THEN \E ok \in BOOLEAN :
                  /\ Returned
                  /\ IF ok
                     THEN /\ trace' = Append(trace, createRelease(option, ok))
                          /\ releases' = WithRelease(option)
                          /\ nextId' = nextId + 1
                          /\ idx' = IF idx = Len(options) THEN 1 ELSE idx + 1
                          /\ ThenDelay(to)
                          /\ UNCHANGED <<tags, exitCode>>
                     ELSE /\ Abort(createRelease(option, ok))
                          /\ UNCHANGED <<after, releases, nextId, tags, idx, exitCode>>
           ELSE IF isTagOption(option)
           THEN \E ok \in BOOLEAN :
                  /\ Returned
                  /\ IF ok
                     THEN /\ trace' = Append(trace, createTag(option, tagCommitSha, ok))
                          /\ tags' = WithTag(option, tagCommitSha)
                          /\ idx' = IF idx = Len(options) THEN 1 ELSE idx + 1
                          /\ ThenDelay(to)
                          /\ UNCHANGED <<releases, nextId, exitCode>>
                     ELSE /\ Abort(createTag(option, tagCommitSha, ok))
                          /\ UNCHANGED <<after, releases, nextId, tags, idx, exitCode>>
           ELSE /\ LogAndQuit
                /\ UNCHANGED <<after, releases, nextId, tags, idx, trace, inflight,
                               awaiting>>
    /\ UNCHANGED <<argv, foreign, options, branchTip, initial, existingReleases,
                   existingTags, tagCommitSha, checkVars>>

-----------------------------------------------------------------------------
(* Check Reconciler *)

\* ReleaseFound with the draft flag not compared.
ReleaseFoundIgnoringDraft(release, option) ==
    /\ release.tag_name = option.tag
    /\ release.name = option.name

\* checkReleases' find callback.
ReleaseFound(release, option) ==
    /\ release.tag_name = option.tag
    /\ release.name = option.name
    /\ release.draft = option.draft

\* TagFound with the commit compared as well: the tag must sit at the tip.
TagFoundAtTip(tag, option) == tag.name = option.tag /\ tag.sha = branchTip

\* checkTags' find callback.
TagFound(tag, option) == tag.name = option.tag

\* checkReleases' notFoundReleases, given the listing.
NotFoundReleases(opts, listing) ==
    LET Missing(option) == ~\E i \in 1..Len(listing) : ReleaseFound(listing[i], option)
    IN  SelectSeq(opts, Missing)

\* checkTags' notFound, given the listing.
NotFoundTags(opts, listing) ==
    LET Missing(option) == ~\E i \in 1..Len(listing) : TagFound(listing[i], option)
    IN  SelectSeq(opts, Missing)

\* FinishChecks with the exit code left alone.
FinishChecksSilently(err) == UNCHANGED exitCode

\* The end of runChecks: process.exitCode = 1 when hasError.
FinishChecks(err) == exitCode' = IF err THEN 1 ELSE exitCode

\* CheckTags returning from runChecks as soon as a tag is missing.
CheckTagsShortCircuit ==
    /\ pc = "checkTags"
    /\ Returned
    /\ \E ok \in BOOLEAN :
         LET tagOptions == SelectSeq(options, isTagOption)
             call == [op |-> "listTags", ok |-> ok]
             notFound == NotFoundTags(tagOptions, tags)
         IN  IF ok
             THEN /\ trace' = Append(trace, call)
                  /\ IF Len(notFound) > 0
                     THEN /\ hasError' = TRUE
                          /\ reported' = Append(reported,
                                 [what |-> "tags", notFound |-> notFound])
                          /\ pc' = "done"
                          /\ exitCode' = 1
                     ELSE /\ pc' = "checkReleases"
                          /\ UNCHANGED <<hasError, reported, exitCode>>
             ELSE /\ Abort(call)
                  /\ UNCHANGED <<hasError, reported, exitCode>>
    /\ UNCHANGED <<argv, foreign, after, options, remoteVars, createVars>>

\* runChecks up to the return of checkTags, and the report of its message.
\* (tagOptions and releaseOptions are arrays, which are always truthy: both
\* checks run.)
CheckTags ==
    /\ pc = "checkTags"
    /\ Returned
    /\ \E ok \in BOOLEAN :
         LET tagOptions == SelectSeq(options, isTagOption)
             call == [op |-> "listTags", ok |-> ok]
             notFound == NotFoundTags(tagOptions, tags)
         IN  IF ok
             THEN /\ trace' = Append(trace, call)
                  /\ IF Len(notFound) > 0
                     THEN /\ hasError' = TRUE
                          /\ reported' = Append(reported,
                                 [what |-> "tags", notFound |-> notFound])
                     ELSE UNCHANGED <<hasError, reported>>
                  /\ pc' = "checkReleases"
             ELSE /\ Abort(call)
                  /\ UNCHANGED <<hasError, reported>>
    /\ UNCHANGED <<argv, foreign, after, options, remoteVars, createVars, exitCode>>

\* The rest of runChecks: checkReleases, the report of its message, and the
\* exit code.
CheckReleases ==
    /\ pc = "checkReleases"
    /\ Returned
    /\ \E ok \in BOOLEAN :
         LET releaseOptions == SelectSeq(options, isReleaseOption)
             call == [op |-> "listReleases", ok |-> ok]
             notFoundReleases == NotFoundReleases(releaseOptions, releases)
         IN  IF ok
             THEN /\ trace' = Append(trace, call)
                  /\ IF Len(notFoundReleases) > 0
                     THEN /\ hasError' = TRUE
                          /\ reported' = Append(reported,
                                 [what |-> "releases", notFound |-> notFoundReleases])
                     ELSE UNCHANGED <<hasError, reported>>
                  /\ FinishChecks(hasError')
                  /\ pc' = "done"
             ELSE /\ Abort(call)
                  /\ UNCHANGED <<hasError, reported, exitCode>>
    /\ UNCHANGED <<argv, foreign, after, options, remoteVars, createVars>>

-----------------------------------------------------------------------------

Next ==
    \/ ProcessArguments
    \/ Run
    \/ IssueCall
    \/ AwaitDelay
    \/ DeleteExistingReleases
    \/ DeleteRelease
    \/ DeleteExistingTags
    \/ DeleteRef
    \/ GetBranch
    \/ Apply
    \/ CheckTags
    \/ CheckReleases

Spec == Init /\ [][Next]_vars

-----------------------------------------------------------------------------
(* Check runs against tags at any commit *)

Shas == {"c0", "c1"}

\* The tags of InitialTags, each at any of the commits.
InitialTagsAnySha ==
    { [i \in 1..Len(p) |-> [name |-> TagNames[p[i]], sha |-> f[i]]] :
        p \in Picks(Len(TagNames), MaxTags), f \in [1..MaxTags -> Shas] }

\* The script's own state when the process starts.
StartOfRun ==
    /\ pc = "start"
    /\ after = "none"
    /\ options = <<>>
    /\ existingReleases = <<>>
    /\ existingTags = <<>>
    /\ idx = 0
    /\ tagCommitSha = "null"
    /\ hasError = FALSE
    /\ reported = <<>>
    /\ exitCode = 0
    /\ inflight = 0
    /\ awaiting = FALSE
    /\ foreign = <<>>
    /\ trace = <<>>

CheckInit ==
    /\ \E b \in Batches : argv = [command |-> "check", rawOptions |-> b]
    /\ releases \in InitialReleases
    /\ tags \in InitialTagsAnySha
    /\ nextId = Len(releases) + 1
    /\ initial = [releases |-> releases, tags |-> tags]
    /\ branchTip = "c1"
    /\ StartOfRun

CheckNext ==
    \/ ProcessArguments
    \/ Run
    \/ IssueCall
    \/ CheckTags
    \/ CheckReleases

CheckSpec == CheckInit /\ [][CheckNext]_vars

-----------------------------------------------------------------------------
(* Create runs on a repository another writer adds to *)

\* Name of the tag the other writer pushes; no batch and no listing of the
\* explored inputs holds it.
F1 == <<"f1">>

\* A listing call of the given kind has returned to the script.
HasListed(op) == \E i \in 1..Len(trace) : trace[i].op = op /\ trace[i].ok

RunOver == pc \in {"done", "aborted", "exited"}

\* Another writer publishes a release while the script runs.
OtherWriterAddsRelease ==
    /\ ~RunOver
    /\ foreign = <<>>
    /\ releases' = Append(releases, [id |-> nextId, name |-> R2, tag_name |-> F1,
                                     draft |-> FALSE])
    /\ nextId' = nextId + 1
    /\ foreign' = <<[kind |-> "release", id |-> nextId,
                     afterListing |-> HasListed("listReleases")]>>
    /\ UNCHANGED <<argv, pc, after, options, tags, branchTip, initial, createVars,
                   checkVars, exitCode, inflight, awaiting, trace>>

\* Another writer pushes a tag while the script runs.
OtherWriterAddsTag ==
    /\ ~RunOver
    /\ foreign = <<>>
    /\ tags' = Append(tags, [name |-> F1, sha |-> "c0"])
    /\ foreign' = <<[kind |-> "tag", name |-> F1,
                     afterListing |-> HasListed("listTags")]>>
    /\ UNCHANGED <<argv, pc, after, options, releases, branchTip, nextId, initial,
                   createVars, checkVars, exitCode, inflight, awaiting, trace>>

\* A create run of one option.
SharedInit ==
    /\ \E o \in BatchOptions : argv = [command |-> "create", rawOptions |-> <<o>>]
    /\ releases \in InitialReleases
    /\ tags \in InitialTags
    /\ nextId = Len(releases) + 1
    /\ initial = [releases |-> releases, tags |-> tags]
    /\ branchTip = "c1"
    /\ StartOfRun

SharedNext ==
    \/ ProcessArguments
    \/ Run
    \/ IssueCall
    \/ AwaitDelay
    \/ DeleteExistingReleases
    \/ DeleteRelease
    \/ DeleteExistingTags
    \/ DeleteRef
    \/ GetBranch
    \/ Apply
    \/ OtherWriterAddsRelease
    \/ OtherWriterAddsTag

SharedSpec == SharedInit /\ [][SharedNext]_vars

-----------------------------------------------------------------------------
(* Vocabulary of the properties *)

Calls == SelectSeq(trace, IsCall)

NoCallFailed == \A i \in 1..Len(trace) : IsCall(trace[i]) => trace[i].ok

IsMutation(e) == e.op \in {"deleteRelease", "deleteRef", "createRelease", "createRef"}

IsCreate(e) == e.op \in {"createRelease", "createRef"}

IsDelete(e) == e.op \in {"deleteRelease", "deleteRef"}

Mutations == SelectSeq(trace, IsMutation)

\* The script got past validation and dispatch.
Dispatched == pc \notin {"start", "run", "exited"}

CreateRun == argv.command = "create" /\ Dispatched

CheckRun == argv.command = "check" /\ Dispatched

TagOptionIndexes == { i \in 1..Len(options) : isTagOption(options[i]) }

ReleaseOptionIndexes == { i \in 1..Len(options) : isReleaseOption(options[i]) }

-----------------------------------------------------------------------------
(* C1 *)

\* The i-th mutating call of a create run is the one the claim expects:
\* the releases of the initial listing, then its tags, then the batch.
ExpectedMutation(e, i) ==
    LET n == Len(initial.releases)
        m == Len(initial.tags)
    IN  IF i <= n
        THEN e.op = "deleteRelease" /\ e.release_id = initial.releases[i].id
        ELSE IF i <= n + m
        THEN e.op = "deleteRef" /\ e.ref = <<"tags/">> \o initial.tags[i - n].name
        ELSE LET option == options[i - n - m]
             IN  IF isReleaseOption(option)
                 THEN /\ e.op = "createRelease"
                      /\ e.tag_name = option.tag
                      /\ e.name = option.name
                      /\ e.draft = option.draft
                 ELSE /\ e.op = "createRef"
                      /\ e.ref = <<"refs/tags/">> \o option.tag

\* C1: in a create run in which no remote call fails, the mutating calls are
\* the |R| delete-release calls in listing order, then the |T| delete-tag
\* calls in listing order, then the |O| create calls in input order (all of
\* them once the run is done), and each of them is followed by the delay.
C1_WipeThenCreateInOrder ==
    (argv.command = "create" /\ NoCallFailed) =>
        LET total == Len(initial.releases) + Len(initial.tags) + Len(options)
        IN  /\ Len(Mutations) <= total
            /\ \A i \in 1..Len(Mutations) : ExpectedMutation(Mutations[i], i)
            /\ pc = "done" => Len(Mutations) = total
            /\ \A j \in 1..Len(trace) :
                 IsMutation(trace[j]) =>
                    IF j < Len(trace)
                    THEN trace[j + 1] = Delay(API_DELAY_MS)
                    ELSE pc = "delay"

C1_Witness ==
    /\ argv.command = "create"
    /\ pc = "done"
    /\ NoCallFailed
    /\ Len(initial.releases) = 2
    /\ Len(initial.tags) = 2
    /\ Len(options) = 2
    /\ TagOptionIndexes # {}
    /\ ReleaseOptionIndexes # {}

-----------------------------------------------------------------------------
(* C2 *)

GetBranchIndexes == { j \in 1..Len(trace) : trace[j].op = "getBranch" }

CountBefore(j, kind) == Cardinality({ i \in 1..(j - 1) : trace[i].op = kind })

\* C2: in a create run whose batch has two or more TagOptions the branch tip
\* is resolved at most once (exactly once when the run is done), after every
\* deletion and before the first create call, and every create-ref call
\* carries the commit that call returned.
C2_AnchorResolvedOnce ==
    (CreateRun /\ Cardinality(TagOptionIndexes) >= 2) =>
        /\ Cardinality(GetBranchIndexes) <= 1
        /\ pc = "done" => Cardinality(GetBranchIndexes) = 1
        /\ \A j \in GetBranchIndexes :
             /\ CountBefore(j, "deleteRelease") = Len(initial.releases)
             /\ CountBefore(j, "deleteRef") = Len(initial.tags)
             /\ \A i \in 1..Len(trace) : IsDelete(trace[i]) => i < j
             /\ \A i \in 1..Len(trace) : IsCreate(trace[i]) => j < i
        /\ \A i \in 1..Len(trace) :
             IsCreate(trace[i]) => \E j \in GetBranchIndexes : j < i /\ trace[j].ok
        /\ \A i \in 1..Len(trace) :
             trace[i].op = "createRef" =>
                \E j \in GetBranchIndexes : trace[i].sha = trace[j].sha /\ trace[j].sha # "null"

C2_Witness ==
    /\ argv.command = "create"
    /\ pc = "done"
    /\ Cardinality(TagOptionIndexes) >= 2
    /\ Cardinality({ i \in 1..Len(trace) : trace[i].op = "createRef" /\ trace[i].ok }) >= 2
    /\ Len(initial.releases) > 0
    /\ Len(initial.tags) > 0

-----------------------------------------------------------------------------
(* C3 *)

RecognizedKeys == { <<"tag">>, <<"rel">>, <<"dft">> }

\* Some comma-separated part of the raw option has a key that is not recognized.
HasUnrecognizedKey(rawOption) ==
    LET raws == Split(rawOption, ",")
    IN  \E i \in 1..Len(raws) : Split(raws[i], ":")[1] \notin RecognizedKeys

Unclassifiable(rawOption) ==
    /\ ~HasUnrecognizedKey(rawOption)
    /\ ~isTagOption(AssembleOption(rawOption))
    /\ ~isReleaseOption(AssembleOption(rawOption))

FatalInput ==
    \/ argv.command \notin {"create", "check"}
    \/ \E i \in 1..Len(argv.rawOptions) : HasUnrecognizedKey(argv.rawOptions[i])
    \/ \E i \in 1..Len(argv.rawOptions) : Unclassifiable(argv.rawOptions[i])
    \/ Len(argv.rawOptions) = 0

\* C3: on a bad command, an unrecognized key, an unclassifiable option or an
\* empty batch the script never gets past validation (it is about to
\* validate, about to reject the empty batch, or has exited) and has issued
\* no remote call; every exit of the script is with status 1 and happens
\* while no remote call has been issued.
C3_FatalValidationBeforeAnyCall ==
    /\ pc = "exited" => exitCode = 1 /\ trace = <<>>
    /\ FatalInput =>
         /\ trace = <<>>
         /\ pc \in {"start", "run", "exited"}
         /\ pc = "run" => Len(argv.rawOptions) = 0

C3_Witness ==
    /\ pc = "exited"
    /\ argv.command = "check"
    /\ Len(argv.rawOptions) > 0
    /\ \A i \in 1..Len(argv.rawOptions) : Unclassifiable(argv.rawOptions[i])

-----------------------------------------------------------------------------
(* C4 *)

\* C4: whenever a remote call has been followed by anything, it has been
\* followed by the delay: no two remote calls are issued back to back.
C4_DelayAfterEveryCall ==
    \A j \in 1..Len(trace) :
        (IsCall(trace[j]) /\ j < Len(trace)) => ~IsCall(trace[j + 1])

-----------------------------------------------------------------------------
(* C5 *)

Range(seq) == { seq[l] : l \in 1..Len(seq) }

\* The options runChecks printed as not found, for tags or for releases.
ReportedNotFound(what) ==
    UNION { Range(reported[k].notFound) :
              k \in { k0 \in 1..Len(reported) : reported[k0].what = what } }

\* Some release of the repository has the option's tag, name and draft flag.
SomeReleaseMatches(option) ==
    \E k \in 1..Len(releases) :
        /\ releases[k].tag_name = option.tag
        /\ releases[k].name = option.name
        /\ releases[k].draft = option.draft

\* Some release agrees with the option on exactly two of the three fields.
SomeReleaseNearlyMatches(option) ==
    \E k \in 1..Len(releases) :
        Cardinality({ f \in {"tag", "name", "draft"} :
            \/ f = "tag" /\ releases[k].tag_name = option.tag
            \/ f = "name" /\ releases[k].name = option.name
            \/ f = "draft" /\ releases[k].draft = option.draft }) = 2

\* C5: when a check run is done, an expected release is printed as not
\* found exactly when no existing release equals it on tag, name and draft.
C5_ReleaseMatchesOnAllThree ==
    (CheckRun /\ pc = "done") =>
        \A i \in ReleaseOptionIndexes :
            (options[i] \in ReportedNotFound("releases")) <=> ~SomeReleaseMatches(options[i])

C5_Witness ==
    /\ CheckRun
    /\ pc = "done"
    /\ \E i \in ReleaseOptionIndexes :
         /\ options[i] \in ReportedNotFound("releases")
         /\ SomeReleaseNearlyMatches(options[i])
         /\ \E k \in 1..Len(releases) :
              /\ releases[k].tag_name = options[i].tag
              /\ releases[k].name = options[i].name
              /\ releases[k].draft # options[i].draft

-----------------------------------------------------------------------------
(* C6 *)

SomeTagNamed(name) == \E k \in 1..Len(tags) : tags[k].name = name

UnmatchedTagOptions == { options[i] : i \in { j \in TagOptionIndexes : ~SomeTagNamed(options[j].tag) } }

UnmatchedReleaseOptions == { options[i] : i \in { j \in ReleaseOptionIndexes : ~SomeReleaseMatches(options[j]) } }

\* C6: when a check run is done, the options it printed as not found are all
\* the tag options with no tag of that name together with all the release
\* options with no matching release, each under its own heading.
C6_CheckReportsEveryMiss ==
    (CheckRun /\ pc = "done") =>
        /\ ReportedNotFound("tags") = UnmatchedTagOptions
        /\ ReportedNotFound("releases") = UnmatchedReleaseOptions

C6_Witness ==
    /\ CheckRun
    /\ pc = "done"
    /\ UnmatchedTagOptions # {}
    /\ UnmatchedReleaseOptions # {}
    /\ Len(reported) = 2

-----------------------------------------------------------------------------
(* C7 *)

ListingOps == <<"listTags", "listReleases">>

\* C7: a check run leaves the releases and the tags of the repository as
\* they were, and its remote calls are list-tags then list-releases (both
\* once it is done), nothing else.
C7_CheckOnlyLists ==
    argv.command = "check" =>
        /\ releases = initial.releases
        /\ tags = initial.tags
        /\ nextId = Len(initial.releases) + 1
        /\ Len(Calls) <= 2
        /\ \A i \in 1..Len(Calls) : Calls[i].op = ListingOps[i]
        /\ pc = "done" => Len(Calls) = 2

C7_Witness ==
    /\ CheckRun
    /\ pc = "done"
    /\ Len(Calls) = 2
    /\ Len(initial.releases) > 0
    /\ Len(initial.tags) > 0
    /\ Len(reported) > 0

-----------------------------------------------------------------------------
(* C8 *)

\* C8: a check run in which no remote call fails is never cut short by an
\* exit or an abort, and once done its status is 1 if some expected tag or
\* release is unmatched and 0 if all of them are matched.
C8_CheckStatus ==
    (CheckRun /\ NoCallFailed) =>
        /\ pc \in {"checkTags", "checkReleases", "done"}
        /\ pc = "done" =>
             exitCode = IF UnmatchedTagOptions # {} \/ UnmatchedReleaseOptions # {}
                        THEN 1 ELSE 0
        /\ pc # "done" => exitCode = 0

C8_Witness ==
    /\ CheckRun
    /\ pc = "done"
    /\ exitCode = 1
    /\ UnmatchedTagOptions # {}
    /\ UnmatchedReleaseOptions = {}
    /\ ReleaseOptionIndexes # {}

-----------------------------------------------------------------------------
(* C9 *)

Perms(n) == { f \in [1..n -> 1..n] : \A i, j \in 1..n : f[i] = f[j] => i = j }

\* The raw option with its comma-separated parts in the order f.
Permuted(rawOption, f) ==
    LET raws == Split(rawOption, ",")
    IN  Join([i \in 1..Len(raws) |-> raws[f[i]]], ",")

\* Every part of the raw option is key:value with a recognized key.
MadeOfRecognizedParts(rawOption) ==
    LET raws == Split(rawOption, ",")
    IN  \A i \in 1..Len(raws) :
            LET kv == Split(raws[i], ":")
            IN  Len(kv) >= 2 /\ kv[1] \in RecognizedKeys

\* No key is given two different values by the raw option.
KeysAgree(rawOption) ==
    LET raws == Split(rawOption, ",")
    IN  \A i, j \in 1..Len(raws) :
            LET a == Split(raws[i], ":")
                b == Split(raws[j], ":")
            IN  a[1] = b[1] => a = b

\* Every reordering of the parts of the raw option gives the option the
\* script built from it.
OrderIndependent(i) ==
    LET rawOption == argv.rawOptions[i]
    IN  \A f \in Perms(Len(Split(rawOption, ","))) :
            AssembleOption(Permuted(rawOption, f)) = options[i]

\* processArguments has just returned or quit.
ArgumentsProcessed == pc \in {"run", "exited"} /\ trace = <<>>

\* C9 as stated: whatever raw option made of recognized key:value parts the
\* script has turned into an option, every permutation of its parts gives
\* that same option.
C9_AnyOrderSameOption ==
    ArgumentsProcessed =>
        \A i \in 1..Len(options) :
            MadeOfRecognizedParts(argv.rawOptions[i]) => OrderIndependent(i)

\* C9 amended: the same, for the raw options in which no key is given two
\* different values.
C9_AnyOrderSameOptionUnlessKeyRepeats ==
    ArgumentsProcessed =>
        \A i \in 1..Len(options) :
            (MadeOfRecognizedParts(argv.rawOptions[i]) /\ KeysAgree(argv.rawOptions[i]))
                => OrderIndependent(i)

C9_Witness ==
    /\ pc = "run"
    /\ Len(options) = 1
    /\ Len(Split(argv.rawOptions[1], ",")) = 3
    /\ MadeOfRecognizedParts(argv.rawOptions[1])
    /\ KeysAgree(argv.rawOptions[1])
    /\ options[1].tag = V1
    /\ options[1].name = R1
    /\ options[1].draft

-----------------------------------------------------------------------------
(* C10 *)

Present(s) == s # undefined

NonEmpty(s) == s # undefined /\ Len(s) > 0

\* The options of a batch that passed validation.
Validated == IF pc \in {"start", "exited"} THEN {} ELSE Range(options)

\* The k-th option of the batch that runCreate has applied, with the call
\* it was applied by.
Applied ==
    LET creates == SelectSeq(trace, IsCreate)
    IN  { <<options[k], creates[k].op>> : k \in 1..Len(creates) }

\* Some raw option assembles to a tag, no name and draft true.
HasDraftTag ==
    \E i \in 1..Len(argv.rawOptions) :
        /\ ~HasUnrecognizedKey(argv.rawOptions[i])
        /\ LET option == AssembleOption(argv.rawOptions[i])
           IN  option.tag # undefined /\ option.name = undefined /\ option.draft

\* Some raw option assembles to a non-empty tag, an empty or missing name
\* and draft true.
HasDraftTagByContent ==
    \E i \in 1..Len(argv.rawOptions) :
        /\ ~HasUnrecognizedKey(argv.rawOptions[i])
        /\ LET option == AssembleOption(argv.rawOptions[i])
           IN  NonEmpty(option.tag) /\ ~NonEmpty(option.name) /\ option.draft

\* C10 as stated, presence being that the field was given: a validated
\* option is treated as a tag exactly when it has a tag, no name and draft
\* false, as a release exactly when it has a name, and never as both.
C10_ExactlyOneClassByPresence ==
    /\ \A option \in Validated :
         /\ isTagOption(option) <=>
                (Present(option.tag) /\ ~Present(option.name) /\ ~option.draft)
         /\ isReleaseOption(option) <=> Present(option.name)
         /\ isTagOption(option) # isReleaseOption(option)
    /\ HasDraftTag => pc \in {"start", "exited"}

\* C10 amended, presence being a non-empty value: every validated option has
\* either a non-empty tag, an empty or missing name and draft false, or else
\* a non-empty name; create applies the former by create-ref and the latter
\* by create-release, check looks the former up among the tags and the
\* latter among the releases; a batch holding an option with a tag, no name
\* and draft true never passes validation.
C10_ExactlyOneClassByContent ==
    /\ \A option \in Validated :
         (NonEmpty(option.tag) /\ ~NonEmpty(option.name) /\ ~option.draft)
            # NonEmpty(option.name)
    /\ \A a \in Applied :
         /\ a[2] = "createRef" <=>
                (NonEmpty(a[1].tag) /\ ~NonEmpty(a[1].name) /\ ~a[1].draft)
         /\ a[2] = "createRelease" <=> NonEmpty(a[1].name)
    /\ \A option \in ReportedNotFound("tags") :
         NonEmpty(option.tag) /\ ~NonEmpty(option.name) /\ ~option.draft
    /\ \A option \in ReportedNotFound("releases") : NonEmpty(option.name)
    /\ HasDraftTagByContent => pc \in {"start", "exited"}

C10_Witness ==
    /\ CreateRun
    /\ pc = "done"
    /\ \E a \in Applied : a[2] = "createRef" /\ a[1].name = <<>>

-----------------------------------------------------------------------------
(* C11 *)

TagOptions == SelectSeq(options, isTagOption)

ReleaseOptions == SelectSeq(options, isReleaseOption)

\* The releases hold exactly what the release options declare, in order
\* (ids are the platform's and are not compared).
ReleasesAreDeclared ==
    /\ Len(releases) = Len(ReleaseOptions)
    /\ \A k \in 1..Len(releases) :
         /\ releases[k].name = ReleaseOptions[k].name
         /\ releases[k].tag_name = ReleaseOptions[k].tag
         /\ releases[k].draft = ReleaseOptions[k].draft

\* The tags hold exactly what the tag options declare, at the branch tip.
TagsAreDeclared ==
    /\ Len(tags) = Len(TagOptions)
    /\ \A k \in 1..Len(tags) :
         /\ tags[k].name = TagOptions[k].tag
         /\ tags[k].sha = branchTip

\* C11: when a create run is done, the releases and tags of the repository
\* are those the batch declares, at the branch tip, whatever the repository
\* held before the run; a second run with the same batch starts from that
\* state and ends in it again.
C11_FinalStateFromBatchAlone ==
    (CreateRun /\ pc = "done") => (ReleasesAreDeclared /\ TagsAreDeclared)

C11_Witness ==
    /\ CreateRun
    /\ pc = "done"
    /\ Len(initial.releases) = 2
    /\ Len(initial.tags) = 2
    /\ initial.tags # tags
    /\ Len(ReleaseOptions) = 1
    /\ Len(TagOptions) = 1
    /\ \E k \in 1..Len(initial.tags) : initial.tags[k].name = TagOptions[1].tag

-----------------------------------------------------------------------------
(* C12 *)

LastOfTrace == trace[Len(trace)]

\* C12: in a create run a failed remote call is the last entry of the trace
\* and leaves the script aborted: no call, delay, retry or re-creation
\* follows it; and the script aborts on nothing but a failed call.
C12_FailedCallEndsCreateRun ==
    argv.command = "create" =>
        /\ \A i \in 1..Len(trace) :
             (IsCall(trace[i]) /\ ~trace[i].ok) => (i = Len(trace) /\ pc = "aborted")
        /\ pc = "aborted" => (trace # <<>> /\ IsCall(LastOfTrace) /\ ~LastOfTrace.ok)

C12_Witness ==
    /\ argv.command = "create"
    /\ pc = "aborted"
    /\ IsCreate(LastOfTrace)
    /\ Len(initial.releases) > 0
    /\ Len(initial.tags) > 0
    /\ releases = <<>>
    /\ tags = <<>>

-----------------------------------------------------------------------------
(* C13 *)

NoCreateYet == \A i \in 1..Len(trace) : ~IsCreate(trace[i])

\* deleteExistingReleases and deleteExistingTags have returned and nothing
\* has been created yet.
WipeJustDone ==
    /\ CreateRun
    /\ NoCallFailed
    /\ NoCreateYet
    /\ \/ pc \in {"getBranch", "apply"}
       \/ pc = "delay" /\ after \in {"getBranch", "apply"}

\* C13: once both wipe phases of a create run have completed without
\* error the repository has no release and no tag, and none of the releases
\* it held before the run ever comes back.
C13_WipeLeavesNothing ==
    /\ WipeJustDone => (releases = <<>> /\ tags = <<>>)
    /\ (CreateRun /\ NoCallFailed /\ ~NoCreateYet) =>
          \A k \in 1..Len(releases) : releases[k].id > Len(initial.releases)

C13_Witness ==
    /\ WipeJustDone
    /\ pc = "getBranch"
    /\ Len(initial.releases) = 2
    /\ Len(initial.tags) = 2
    /\ \E k \in 1..Len(initial.tags) :
         \E i \in TagOptionIndexes : initial.tags[k].name = options[i].tag

-----------------------------------------------------------------------------
(* C14 *)

SomeCreateIssued == \E i \in 1..Len(trace) : IsCreate(trace[i])

\* C14: a create run resolves the branch tip only if the batch has a tag
\* option, and by the time it issues its first create call (or is done) it
\* has resolved it exactly when the batch has one: a batch of release
\* options alone reaches the apply loop with no resolution call.
C14_ResolveIffTagOption ==
    CreateRun =>
        /\ GetBranchIndexes # {} => TagOptionIndexes # {}
        /\ (SomeCreateIssued \/ pc \in {"apply", "done"}) =>
              (GetBranchIndexes # {} <=> TagOptionIndexes # {})

C14_Witness ==
    /\ CreateRun
    /\ pc = "apply"
    /\ TagOptionIndexes = {}
    /\ GetBranchIndexes = {}
    /\ Len(initial.tags) > 0
    /\ Len(options) = 2

-----------------------------------------------------------------------------
(* C15 *)

Creates == SelectSeq(trace, IsCreate)

\* The create call c is the one option calls for.
CreateCallFor(c, option) ==
    IF isReleaseOption(option)
    THEN /\ c.op = "createRelease"
         /\ c.tag_name = option.tag
         /\ c.name = option.name
         /\ c.draft = option.draft
    ELSE /\ isTagOption(option)
         /\ c.op = "createRef"
         /\ c.ref = <<"refs/tags/">> \o option.tag
         /\ c.sha = tagCommitSha
         /\ c.sha = branchTip

\* C15: in a create run the k-th create call is the one the k-th option
\* calls for (create-release with its tag, name and draft, or create-ref of
\* refs/tags/<tag> at the resolved commit), there is one per option once
\* the run is done, and the run never quits once it has issued a call.
C15_OneCreatePerOption ==
    argv.command = "create" =>
        /\ Len(Creates) <= Len(options)
        /\ \A k \in 1..Len(Creates) : CreateCallFor(Creates[k], options[k])
        /\ pc = "done" => Len(Creates) = Len(options)
        /\ trace # <<>> => pc # "exited"

C15_Witness ==
    /\ argv.command = "create"
    /\ pc = "done"
    /\ Len(Creates) = 2
    /\ Creates[1].op = "createRelease"
    /\ Creates[1].draft
    /\ Creates[2].op = "createRef"

-----------------------------------------------------------------------------
(* C17 *)

\* C17: every delay in the trace comes right after a remote call that
\* succeeded, a pending delay is pending after such a call, and a failed
\* call is followed by no delay, elapsed or pending.
C17_DelayOnlyAfterSuccess ==
    /\ \A j \in 1..Len(trace) :
         ~IsCall(trace[j]) => (j > 1 /\ IsCall(trace[j - 1]) /\ trace[j - 1].ok)
    /\ pc = "delay" => (trace # <<>> /\ IsCall(LastOfTrace) /\ LastOfTrace.ok)
    /\ \A j \in 1..Len(trace) :
         (IsCall(trace[j]) /\ ~trace[j].ok) => (j = Len(trace) /\ pc # "delay")

C17_Witness ==
    /\ pc = "aborted"
    /\ LastOfTrace.op = "deleteRelease"
    /\ Len(trace) = 5
    /\ trace[4] = Delay(API_DELAY_MS)

-----------------------------------------------------------------------------
(* C19 *)

\* C19: when a create run is done, the check of the same batch against the
\* repository as the run left it finds every tag option and every release
\* option: both not-found lists are empty, so it would report nothing and
\* leave the status 0.
C19_CheckPassesAfterCreate ==
    (CreateRun /\ pc = "done") =>
        /\ NotFoundTags(TagOptions, tags) = <<>>
        /\ NotFoundReleases(ReleaseOptions, releases) = <<>>

C19_Witness ==
    /\ CreateRun
    /\ pc = "done"
    /\ NotFoundTags(TagOptions, initial.tags) # <<>>
    /\ NotFoundReleases(ReleaseOptions, initial.releases) # <<>>
    /\ \E k \in 1..Len(ReleaseOptions) : ReleaseOptions[k].draft
    /\ Len(initial.releases) > 0

-----------------------------------------------------------------------------
(* C16 *)

\* The tags ts with every tag moved to any commit.
AtAnySha(ts) ==
    { [i \in 1..Len(ts) |-> [name |-> ts[i].name, sha |-> f[i]]] :
        f \in [1..Len(ts) -> Shas] }

\* The not-found list checkTags printed, empty when it printed none.
ReportedTagList ==
    LET ks == { k \in 1..Len(reported) : reported[k].what = "tags" }
    IN  IF ks = {} THEN <<>> ELSE reported[CHOOSE k \in ks : TRUE].notFound

\* C16: once checkTags has returned, a tag option is among those printed as
\* not found exactly when no existing tag has its name, and the list
\* printed is the one checkTags gives for the same tags at any other
\* commits.
C16_TagMatchByNameOnly ==
    (CheckRun /\ pc \in {"checkReleases", "done"}) =>
        /\ \A i \in TagOptionIndexes :
             (options[i] \in ReportedNotFound("tags")) <=> ~SomeTagNamed(options[i].tag)
        /\ \A other \in AtAnySha(tags) :
             NotFoundTags(TagOptions, other) = ReportedTagList

C16_Witness ==
    /\ CheckRun
    /\ pc = "done"
    /\ Len(tags) = 2
    /\ tags[1].sha # tags[2].sha
    /\ Len(TagOptions) = 2
    /\ Len(ReportedTagList) = 1
    /\ \E k \in 1..2 : tags[k].name = V1 /\ tags[k].sha = "c0"

-----------------------------------------------------------------------------
(* C18 *)

\* C18: at most one remote call is in flight at any time; a call is in
\* flight only while the script is suspended on it at a call site, and none
\* is in flight while the script paces, has finished or has stopped. So
\* every call recorded as returned had returned before the next one was
\* issued.
C18_OneCallInFlight ==
    /\ inflight <= 1
    /\ (inflight = 1) <=> awaiting
    /\ awaiting => pc \in CallSites
    /\ pc \in {"start", "run", "delay", "done", "aborted", "exited"} => inflight = 0

C18_Witness ==
    /\ CreateRun
    /\ pc = "apply"
    /\ idx = 2
    /\ inflight = 1
    /\ awaiting
    /\ Len(Calls) >= 6

-----------------------------------------------------------------------------
(* C20 *)

IsOp(op, e) == e.op = op

DeleteReleaseCalls == LET Is(e) == IsOp("deleteRelease", e) IN SelectSeq(trace, Is)

DeleteRefCalls == LET Is(e) == IsOp("deleteRef", e) IN SelectSeq(trace, Is)

ListingCalls(op) == { i \in 1..Len(trace) : trace[i].op = op }

\* The wipe of the releases (of the tags) has run to its end.
ReleaseWipeOver ==
    /\ HasListed("listReleases")
    /\ \/ pc = "deleteExistingTags"
       \/ pc = "delay" /\ after = "deleteExistingTags"
       \/ ListingCalls("listTags") # {}

TagWipeOver ==
    /\ HasListed("listTags")
    /\ \/ pc \in {"getBranch", "apply", "done"}
       \/ pc = "delay" /\ after \in {"getBranch", "apply", "done"}
       \/ \E i \in 1..Len(trace) : trace[i].op \in {"getBranch", "createRelease", "createRef"}

SurvivesWipe(f) ==
    IF f.kind = "release"
    THEN \E k \in 1..Len(releases) : releases[k].id = f.id
    ELSE \E k \in 1..Len(tags) : tags[k].name = f.name

\* C20: in a create run each wipe phase lists once; the k-th delete call
\* of the phase targets the k-th entry of that listing, so every delete
\* targets a listed entry and none is deleted twice, and once the phase is over
\* every listed entry has been targeted; what another writer added after the
\* listing returned is still in the repository.
C20_DeletesExactlyTheListing ==
    /\ Cardinality(ListingCalls("listReleases")) <= 1
    /\ Cardinality(ListingCalls("listTags")) <= 1
    /\ Len(DeleteReleaseCalls) <= Len(existingReleases)
    /\ \A k \in 1..Len(DeleteReleaseCalls) :
         DeleteReleaseCalls[k].release_id = existingReleases[k].id
    /\ \A k, l \in 1..Len(existingReleases) :
         existingReleases[k].id = existingReleases[l].id => k = l
    /\ ReleaseWipeOver => Len(DeleteReleaseCalls) = Len(existingReleases)
    /\ Len(DeleteRefCalls) <= Len(existingTags)
    /\ \A k \in 1..Len(DeleteRefCalls) :
         DeleteRefCalls[k].ref = <<"tags/">> \o existingTags[k].name
    /\ \A k, l \in 1..Len(existingTags) :
         existingTags[k].name = existingTags[l].name => k = l
    /\ TagWipeOver => Len(DeleteRefCalls) = Len(existingTags)
    /\ \A j \in 1..Len(foreign) : foreign[j].afterListing => SurvivesWipe(foreign[j])

\* Both wipes are over, each deleted the two entries it listed, and the
\* release another writer published during the release wipe is still there.
C20_Witness ==
    /\ CreateRun
    /\ pc = "done"
    /\ Len(DeleteReleaseCalls) = 2
    /\ Len(DeleteRefCalls) = 2
    /\ foreign # <<>>
    /\ foreign[1].kind = "release"
    /\ foreign[1].afterListing
    /\ SurvivesWipe(foreign[1])
    /\ Len(releases) >= 2

====
